---- MODULE Spec2Model ----
(***************************************************************************)
(* State-machine model of the image editor of src/src/index.tsx: the       *)
(* image-size loader with its retries and cancellation, the contain        *)
(* layout, the image transform and crop rectangle shared values, the       *)
(* control surface (reset, flipX, flipY, rotateRight, save) and the        *)
(* pinch / pan / edge-resize gesture callbacks.                            *)
(*                                                                         *)
(* Numbers.  The program computes with JavaScript numbers; the model       *)
(* computes with exact values.  Every length is stored as an integer       *)
(* number of 1/Unit pixels, where Unit = 2*p*q and p/q is the image        *)
(* aspect ratio in lowest terms: with that unit every quotient of the      *)
(* layout computation (index.tsx 342-347) is exact.  zoomLevel is stored   *)
(* in hundredths.                                                          *)
(***************************************************************************)
EXTENDS Integers, Sequences, FiniteSets, TLC

\* ------------------------------------------------------------ constants

CROP_PAN_GESTURE_HIT_SLOP == 20
CROPPER_BORDER_WIDTH == 2
CROPPER_MIN_SIZE == CROP_PAN_GESTURE_HIT_SLOP + CROPPER_BORDER_WIDTH * 2

\* zoomLevel: 1 (index.tsx 360, 468) and the clamp bounds 0.1 and 2 (538),
\* in hundredths.
ZOOM_ONE == 100
MIN_ZOOM == 10
MAX_ZOOM == 200

\* maxRetries of useImageState, as ImageManipulationView passes it
\* (index.tsx 203; the default of index.tsx 139 is the same).
maxRetries == 10

\* A number field that is undefined (index.tsx 70-73).
undefinedNumber == -1

\* ------------------------------------------------------- bounds, inputs

\* Canvas sides of the layout specification: 100, 200, ... pixels.
MaxCanvasSteps == 3
\* Image file sides of the layout specification: 100, 200, ... pixels.
MaxImageSteps == 4
\* Quarter turns are iterated in whole turns, up to MaxRotateCycles of them.
MaxRotateCycles == 2
\* In-range drag distances of the gesture specification: 18, 36, ... pixels.
MaxDragSteps == 1

\* The parent replaces the source prop at most MaxSourceChanges times.
MaxSourceChanges == 1

LayoutCanvasSides == {100 * k : k \in 1..MaxCanvasSteps}
LayoutImageSides == {100 * k : k \in 1..MaxImageSteps}

\* A mounted editor: canvas size (onLayout) and image file size (loader).
Config(cw, ch, fw, fh) ==
    [canvasWidth |-> cw, canvasHeight |-> ch, imageFileWidth |-> fw, imageFileHeight |-> fh]

\* The editors of the gesture specification: a square image (the layout is
\* the 60 x 60 canvas), and a panorama and a banner whose layouts (60 x 15
\* and 15 x 60) are smaller than CROPPER_MIN_SIZE on one axis.
GestureConfigs ==
    {Config(60, 60, 100, 100), Config(60, 60, 400, 100), Config(60, 60, 100, 400)}

\* The editors of the control-surface specification.
ControlConfigs == {Config(60, 60, 100, 100), Config(60, 60, 400, 100)}

\* The sources of the view specification and the file sizes Image.getSize
\* reports for them: "a" and "b" are different images of the same size.
Sources == {"a", "b", "c"}
ImageSize(uri) ==
    IF uri = "c" THEN [width |-> 400, height |-> 100] ELSE [width |-> 100, height |-> 100]

\* The canvas sizes onLayout reports in the view specification.
CanvasLayouts == {[width |-> 60, height |-> 60], [width |-> 60, height |-> 30]}

\* The messages Image.getSize fails with.
ErrorMessages == {"timeout", "not found"}

\* event.translationX / translationY of a pan or edge-resize update, pixels.
\* -100 and 100 reach past every bound of the 60 x 60 canvas.
GestureTranslations ==
    {-100, 100} \cup {18 * k : k \in 1..MaxDragSteps} \cup {-18 * k : k \in 1..MaxDragSteps}
ControlTranslations == {-100, 100}

\* Touch positions (canvas pixels).
GestureTouches == {[x |-> x, y |-> y] : x \in {15, 30, 45}, y \in {15, 30, 45}}
ControlTouches == {[x |-> 0, y |-> 15]}

\* event.scale of a pinch update, as <<numerator, denominator>>.
PinchScales == {<<1, 20>>, <<2, 1>>, <<20, 1>>}
ControlPinchScales == {<<20, 1>>}

\* ---------------------------------------------------------- arithmetic

Min(a, b) == IF a <= b THEN a ELSE b
Max(a, b) == IF a >= b THEN a ELSE b

\* Math.abs
Abs(a) == IF a < 0 THEN -a ELSE a

RECURSIVE GCD(_, _)
GCD(a, b) == IF b = 0 THEN a ELSE GCD(b, a % b)

\* Sub-pixel units per pixel for an image of fw x fh file pixels.
UnitOf(fw, fh) == 2 * (fw \div GCD(fw, fh)) * (fh \div GCD(fw, fh))

\* react-native-reanimated's clamp (imported at index.tsx 12):
\* Math.min(Math.max(value, min), max); with min > max the result is max.
clamp(value, lowerBound, upperBound) == Min(Max(lowerBound, value), upperBound)

\* ----------------------------------------------------------- variables

VARIABLES
    props,                      \* canvasWidth, canvasHeight, imageFileWidth, imageFileHeight
    sourceUri,                  \* source.uri
    mounted,                    \* ImageManipluationInner has rendered
    initialImageLayout,         \* useMemo, index.tsx 332
    imageAnimatedValues,        \* index.tsx 352
    cropperAnimatedValues,      \* index.tsx 363
    gestureScale,               \* index.tsx 370
    translationStartX,
    translationStartY,
    cropStartX,
    cropStartY,
    cropWidthStart,
    cropHeightStart,
    verticalEdgeBeingTouched,   \* "left" | "right" | "null"
    horizontalEdgeBeingTouched, \* "top" | "bottom" | "null"
    race,                       \* Gesture.Race(cropGesture, panGesture): who holds the touch
    touch,                      \* the initiating touch of the current one-finger gesture
    pinchActive,                \* the pinch recognizer is active
    saveReturn,                 \* what the last save() call returned to its caller
    onSaveArg,                  \* the argument of the last onSave callback
    lastOp,                     \* history: the handler that took the last step
    viewMounted,                \* ImageManipulationView is in the tree
    imageState,                 \* useReducer state of useImageState, index.tsx 143
    effectDue,                  \* the effect of index.tsx 161 is scheduled to run
    requests,                   \* Image.getSize calls whose callback has not arrived
    pendingGetImageSize,        \* the request the effect cleanup cancels, index.tsx 162
    lastCallback,               \* history: the callback the last loader step called
    onErrorArg,                 \* the argument of the last onError call
    attempts,                   \* history: Image.getSize calls since the source was set
    sourceChanges,              \* history: number of source replacements
    mountedSource,              \* history: source.uri at the first render of the editor
    interrupted,                \* history: a handler or pinch update ran inside the gesture
    saveCall                    \* the handleSave call between its two reads, index.tsx 479-480

baselines ==
    <<gestureScale, translationStartX, translationStartY, cropStartX, cropStartY,
      cropWidthStart, cropHeightStart>>
markers == <<verticalEdgeBeingTouched, horizontalEdgeBeingTouched>>
loader ==
    <<viewMounted, imageState, effectDue, requests, pendingGetImageSize, lastCallback,
      onErrorArg, attempts, sourceChanges>>
environment == <<props, sourceUri, mounted, initialImageLayout, loader, mountedSource>>
saveOutputs == <<saveReturn, onSaveArg>>
gestureState == <<race, touch, pinchActive>>

vars ==
    <<props, sourceUri, mounted, initialImageLayout, imageAnimatedValues,
      cropperAnimatedValues, gestureScale, translationStartX, translationStartY,
      cropStartX, cropStartY, cropWidthStart, cropHeightStart,
      verticalEdgeBeingTouched, horizontalEdgeBeingTouched, race, touch,
      pinchActive, saveReturn, onSaveArg, lastOp, viewMounted, imageState,
      effectDue, requests, pendingGetImageSize, lastCallback, onErrorArg, attempts,
      sourceChanges, mountedSource, interrupted, saveCall>>

\* Sub-pixel units per pixel of the mounted editor.
Unit == UnitOf(props.imageFileWidth, props.imageFileHeight)

\* --------------------------------------------------------------- loader

\* index.tsx 65-74.  aspectRatio is kept as <<width, height>> in lowest
\* terms, <<>> when undefined.
initialState ==
    [isLoading |-> TRUE, isSuccess |-> FALSE, isError |-> FALSE, error |-> "undefined",
     retryCount |-> 0, aspectRatio |-> <<>>, width |-> undefinedNumber,
     height |-> undefinedNumber]

\* width / height of handleImageSizeSuccess, index.tsx 166.
AspectRatio(width, height) ==
    <<width \div GCD(width, height), height \div GCD(width, height)>>

\* Mutant of reducerSuccess: retryCount is taken from initialState.
reducerSuccessResettingRetryCount(state, payload) ==
    [initialState EXCEPT !.isLoading = FALSE, !.isSuccess = TRUE,
                         !.aspectRatio = payload.aspectRatio,
                         !.width = payload.width, !.height = payload.height]

\* reducer, case 'SUCCESS', index.tsx 78-88.
reducerSuccess(state, payload) ==
    [initialState EXCEPT !.isLoading = FALSE, !.isSuccess = TRUE,
                         !.retryCount = state.retryCount,
                         !.aspectRatio = payload.aspectRatio,
                         !.width = payload.width, !.height = payload.height]

\* Mutant of reducerFailure: isLoading is left set.
reducerFailureStillLoading(state, payload) ==
    [initialState EXCEPT !.isError = TRUE, !.error = payload,
                         !.retryCount = state.retryCount]

\* reducer, case 'FAILURE', index.tsx 89-97.
reducerFailure(state, payload) ==
    [initialState EXCEPT !.isLoading = FALSE, !.isError = TRUE, !.error = payload,
                         !.retryCount = state.retryCount]

\* Mutant of reducerAutoRetry: retryCount is carried over, not incremented.
reducerAutoRetryKeepingCount(state) == [initialState EXCEPT !.retryCount = state.retryCount]

\* reducer, case 'AUTO_RETRY', index.tsx 98-100.
reducerAutoRetry(state) == [initialState EXCEPT !.retryCount = state.retryCount + 1]

\* Mutant of RetriesExhausted: the comparison is strict.
RetriesExhaustedStrict(retryCount) == retryCount > maxRetries

\* The condition of handleImageSizeFailure, index.tsx 170, on the
\* retryCount its closure captured.
RetriesExhausted(retryCount) == retryCount >= maxRetries

\* A getImageSize call (index.tsx 107-133): its uri, the state.retryCount
\* the callbacks' closure captured, and its totallyCanceled flag.
Request(uri, retryCount) == [uri |-> uri, retryCount |-> retryCount, cancelled |-> FALSE]

\* pendingGetImageSize before any request, index.tsx 162.
NoRequest == [uri |-> "", retryCount |-> 0, cancelled |-> TRUE]

\* Mutant of Delivered: totallyCanceled is not consulted.
DeliveredAlways(r) == TRUE

\* The guard of the wrapped callbacks, index.tsx 117 and 122.
Delivered(r) == ~r.cancelled

\* pendingGetImageSize.cancel(), index.tsx 129-131 and 193: the flag of
\* request h is set; the flags of the other requests are untouched.
Cancel(reqs, h) == {IF r = h THEN [r EXCEPT !.cancelled = TRUE] ELSE r : r \in reqs}

\* The loader after a first successful load of an image of cfg's file size.
Loaded(cfg) ==
    /\ viewMounted = TRUE
    /\ imageState =
           reducerSuccess(initialState,
                          [aspectRatio |-> AspectRatio(cfg.imageFileWidth, cfg.imageFileHeight),
                           width |-> cfg.imageFileWidth, height |-> cfg.imageFileHeight])
    /\ effectDue = FALSE
    /\ requests = {}
    /\ pendingGetImageSize = Request("uri", 0)
    /\ lastCallback = "onLoad"
    /\ onErrorArg = "not called"
    /\ attempts = 1
    /\ sourceChanges = 0

\* --------------------------------------------------------------- layout

\* Mutant of ComputeInitialImageLayout: the comparison of the two aspect
\* ratios is reversed, which fits the other axis.
ComputeInitialImageLayoutReversed(cw, ch, fw, fh) ==
    LET u == UnitOf(fw, fh)
        canvasWidth == cw * u
        canvasHeight == ch * u
    IN  IF fw * ch < cw * fh
        THEN LET height == (canvasWidth * fh) \div fw
             IN  [left |-> 0, top |-> (canvasHeight - height) \div 2,
                  width |-> canvasWidth, height |-> height]
        ELSE LET width == (canvasHeight * fw) \div fh
             IN  [left |-> (canvasWidth - width) \div 2, top |-> 0,
                  width |-> width, height |-> canvasHeight]

\* index.tsx 332-350.  imageAspectRatio > canvasAspectRatio is fw/fh > cw/ch.
ComputeInitialImageLayout(cw, ch, fw, fh) ==
    LET u == UnitOf(fw, fh)
        canvasWidth == cw * u
        canvasHeight == ch * u
    IN  IF fw * ch > cw * fh
        THEN LET height == (canvasWidth * fh) \div fw
             IN  [left |-> 0, top |-> (canvasHeight - height) \div 2,
                  width |-> canvasWidth, height |-> height]
        ELSE LET width == (canvasHeight * fw) \div fh
             IN  [left |-> (canvasWidth - width) \div 2, top |-> 0,
                  width |-> width, height |-> canvasHeight]

NoRect == [left |-> 0, top |-> 0, width |-> 0, height |-> 0]
NoTouch == [x |-> -1, y |-> -1]
NoImage ==
    [left |-> 0, top |-> 0, width |-> 0, height |-> 0, isFlippedX |-> FALSE,
     isFlippedY |-> FALSE, rotation |-> 0, zoomLevel |-> 0]

\* No handleSave call is between its reads.
NoSaveCall == [active |-> FALSE, cropperValues |-> NoRect, consistent |-> TRUE]

\* The image shared value built from a layout (index.tsx 352-361, 460-469).
ImageOfLayout(layout) ==
    [left |-> layout.left, top |-> layout.top, width |-> layout.width,
     height |-> layout.height, isFlippedX |-> FALSE, isFlippedY |-> FALSE,
     rotation |-> 0, zoomLevel |-> ZOOM_ONE]

\* The crop shared value built from a layout (index.tsx 363-368, 470-475).
CropperOfLayout(layout) ==
    [left |-> layout.left, top |-> layout.top, width |-> layout.width,
     height |-> layout.height]

\* Before the first render of ImageManipluationInner.
Unmounted(cfg) ==
    /\ props = cfg
    /\ sourceUri = "uri"
    /\ mounted = FALSE
    /\ initialImageLayout = NoRect
    /\ imageAnimatedValues = NoImage
    /\ cropperAnimatedValues = NoRect
    /\ gestureScale = 0
    /\ translationStartX = 0
    /\ translationStartY = 0
    /\ cropStartX = 0
    /\ cropStartY = 0
    /\ cropWidthStart = 0
    /\ cropHeightStart = 0
    /\ verticalEdgeBeingTouched = "null"
    /\ horizontalEdgeBeingTouched = "null"
    /\ race = "idle"
    /\ touch = NoTouch
    /\ pinchActive = FALSE
    /\ saveReturn = "not called"
    /\ onSaveArg = "not called"
    /\ lastOp = "none"
    /\ interrupted = FALSE
    /\ saveCall = NoSaveCall
    /\ Loaded(cfg)
    /\ mountedSource = ""

\* The state after the first render (index.tsx 330-378).
Mounted(cfg) ==
    LET layout ==
            ComputeInitialImageLayout(cfg.canvasWidth, cfg.canvasHeight,
                                      cfg.imageFileWidth, cfg.imageFileHeight)
    IN  /\ props = cfg
        /\ sourceUri = "uri"
        /\ mounted = TRUE
        /\ initialImageLayout = layout
        /\ imageAnimatedValues = ImageOfLayout(layout)
        /\ cropperAnimatedValues = CropperOfLayout(layout)
        /\ gestureScale = ZOOM_ONE
        /\ translationStartX = 0
        /\ translationStartY = 0
        /\ cropStartX = 0
        /\ cropStartY = 0
        /\ cropWidthStart = 0
        /\ cropHeightStart = 0
        /\ verticalEdgeBeingTouched = "null"
        /\ horizontalEdgeBeingTouched = "null"
        /\ race = "idle"
        /\ touch = NoTouch
        /\ pinchActive = FALSE
        /\ saveReturn = "not called"
        /\ onSaveArg = "not called"
        /\ lastOp = "mount"
        /\ interrupted = FALSE
        /\ saveCall = NoSaveCall
        /\ Loaded(cfg)
        /\ mountedSource = "uri"

\* The first render, as a step.
Mount ==
    /\ ~mounted
    /\ LET layout ==
               ComputeInitialImageLayout(props.canvasWidth, props.canvasHeight,
                                         props.imageFileWidth, props.imageFileHeight)
       IN  /\ initialImageLayout' = layout
           /\ imageAnimatedValues' = ImageOfLayout(layout)
           /\ cropperAnimatedValues' = CropperOfLayout(layout)
    /\ mounted' = TRUE
    /\ mountedSource' = sourceUri
    /\ gestureScale' = ZOOM_ONE
    /\ lastOp' = "mount"
    /\ UNCHANGED <<props, sourceUri, translationStartX, translationStartY, cropStartX,
                   cropStartY, cropWidthStart, cropHeightStart, markers, gestureState,
                   saveOutputs, interrupted, saveCall, loader>>

\* ------------------------------------------------------ control surface

\* Mutant of FlipXResult: the rotation is not consulted.
FlipXIgnoringRotation(val) == [val EXCEPT !.isFlippedX = ~val.isFlippedX]

\* handleFlipX, index.tsx 415-430.
FlipXResult(val) ==
    IF val.rotation % 180 = 0
    THEN [val EXCEPT !.isFlippedX = ~val.isFlippedX]
    ELSE [val EXCEPT !.isFlippedY = ~val.isFlippedY]

\* Mutant of FlipYResult: the flag is set instead of toggled.
FlipYSettingFlag(val) ==
    IF val.rotation % 180 = 0
    THEN [val EXCEPT !.isFlippedY = TRUE]
    ELSE [val EXCEPT !.isFlippedX = TRUE]

\* handleFlipY, index.tsx 432-447.
FlipYResult(val) ==
    IF val.rotation % 180 = 0
    THEN [val EXCEPT !.isFlippedY = ~val.isFlippedY]
    ELSE [val EXCEPT !.isFlippedX = ~val.isFlippedX]

\* Mutant of RotateRightResult: the wrap compares with > instead of >=.
RotateRightLateWrap(val) ==
    LET newRotation == val.rotation + 90
    IN  [val EXCEPT !.rotation = IF newRotation > 360 THEN 0 ELSE newRotation]

\* Mutant of RotateRightResult: the quarter turn also swaps the sides of
\* the image box.
RotateRightSwappingBox(val) ==
    LET newRotation == val.rotation + 90
    IN  [val EXCEPT !.rotation = IF newRotation >= 360 THEN 0 ELSE newRotation,
                    !.width = val.height, !.height = val.width]

\* handleRotateRight, index.tsx 449-457.
RotateRightResult(val) ==
    LET newRotation == val.rotation + 90
    IN  [val EXCEPT !.rotation = IF newRotation >= 360 THEN 0 ELSE newRotation]

\* The control handlers run on the JS thread.  With react-native-reanimated
\* 3.16 (package.json) a read there waits for the UI thread, behind every
\* write queued before it, and the writes of one handler reach the UI
\* thread as one batch; no gesture callback writes a field a control
\* handler reads before writing.  So a handler is one step.
handleFlipX ==
    /\ mounted
    /\ imageAnimatedValues' = FlipXResult(imageAnimatedValues)
    /\ interrupted' = (interrupted \/ race \in {"pan", "crop"})
    /\ lastOp' = "flipX"
    /\ UNCHANGED <<environment, cropperAnimatedValues, baselines, markers, gestureState,
                   saveOutputs, saveCall>>

handleFlipY ==
    /\ mounted
    /\ imageAnimatedValues' = FlipYResult(imageAnimatedValues)
    /\ interrupted' = (interrupted \/ race \in {"pan", "crop"})
    /\ lastOp' = "flipY"
    /\ UNCHANGED <<environment, cropperAnimatedValues, baselines, markers, gestureState,
                   saveOutputs, saveCall>>

handleRotateRight ==
    /\ mounted
    /\ imageAnimatedValues' = RotateRightResult(imageAnimatedValues)
    /\ interrupted' = (interrupted \/ race \in {"pan", "crop"})
    /\ lastOp' = "rotateRight"
    /\ UNCHANGED <<environment, cropperAnimatedValues, baselines, markers, gestureState,
                   saveOutputs, saveCall>>

\* Mutant of handleReset: the crop rectangle is not restored.
handleResetImageOnly ==
    /\ mounted
    /\ imageAnimatedValues' = ImageOfLayout(initialImageLayout)
    /\ interrupted' = (interrupted \/ race \in {"pan", "crop"})
    /\ lastOp' = "reset"
    /\ UNCHANGED <<environment, cropperAnimatedValues, baselines, markers, gestureState,
                   saveOutputs, saveCall>>

\* handleReset, index.tsx 459-476.
handleReset ==
    /\ mounted
    /\ imageAnimatedValues' = ImageOfLayout(initialImageLayout)
    /\ cropperAnimatedValues' = CropperOfLayout(initialImageLayout)
    /\ interrupted' = (interrupted \/ race \in {"pan", "crop"})
    /\ lastOp' = "reset"
    /\ UNCHANGED <<environment, baselines, markers, gestureState, saveOutputs, saveCall>>

\* The early return of handleSave, index.tsx 482-490.
SaveRejected(uri, cropperValues, imageValues) ==
    \/ uri = ""
    \/ cropperValues.left < imageValues.left
    \/ cropperValues.top < imageValues.top
    \/ cropperValues.left + cropperValues.width > imageValues.left + imageValues.width
    \/ cropperValues.top + cropperValues.height > imageValues.top + imageValues.height

\* handleSave, index.tsx 478-518: an async function with no return value:
\* its caller always receives undefined; an accepted call hands source.uri
\* to the onSave prop.  The two reads are taken in one step here;
\* handleSaveReadCropper and handleSaveReadImage take them apart.
handleSave ==
    /\ mounted
    /\ saveReturn' = "undefined"
    /\ onSaveArg' =
           IF SaveRejected(sourceUri, cropperAnimatedValues, imageAnimatedValues)
           THEN "not called"
           ELSE sourceUri
    /\ lastOp' = "save"
    /\ UNCHANGED <<environment, imageAnimatedValues, cropperAnimatedValues, baselines,
                   markers, gestureState, interrupted, saveCall>>

\* The record of a handleSave call after a step of the UI thread that leaves
\* the shared values at cropperValues and imageValues.  consistent tells
\* whether, at some moment since cropperAnimatedValues.get() (index.tsx
\* 479), the crop rectangle was the one that call returned while the
\* transform was the one of now.
SaveCallAfter(cropperValues, imageValues) ==
    IF saveCall.active
    THEN [saveCall EXCEPT
              !.consistent =
                  \/ cropperValues = saveCall.cropperValues
                  \/ saveCall.consistent /\ imageValues = imageAnimatedValues]
    ELSE saveCall

\* handleSave up to cropperAnimatedValues.get(), index.tsx 478-479.  On the
\* JS thread the read is a synchronous call into the UI thread; the
\* callbacks of the gestures run on that thread and may run before the next
\* read.
handleSaveReadCropper ==
    /\ mounted
    /\ ~ saveCall.active
    /\ saveCall' =
           [active |-> TRUE, cropperValues |-> cropperAnimatedValues, consistent |-> TRUE]
    /\ lastOp' = "saveReadCropper"
    /\ UNCHANGED <<environment, imageAnimatedValues, cropperAnimatedValues, baselines,
                   markers, gestureState, saveOutputs, interrupted>>

\* handleSave from imageAnimatedValues.get() to its end, index.tsx 480-517.
handleSaveReadImage ==
    /\ saveCall.active
    /\ saveCall' = [saveCall EXCEPT !.active = FALSE]
    /\ saveReturn' = "undefined"
    /\ onSaveArg' =
           IF SaveRejected(sourceUri, saveCall.cropperValues, imageAnimatedValues)
           THEN "not called"
           ELSE sourceUri
    /\ lastOp' = "save"
    /\ UNCHANGED <<environment, imageAnimatedValues, cropperAnimatedValues, baselines,
                   markers, gestureState, interrupted>>

\* ---------------------------------------------------------------- pinch

\* gestureScale.value * event.scale, in hundredths (the scales of
\* PinchScales give a whole number of hundredths wherever the product lies
\* between the clamp bounds).
ScaledBy(zoom, scale) == (zoom * scale[1]) \div scale[2]

\* pinchGesture.onStart, index.tsx 534-536.
pinchOnStart ==
    /\ mounted
    /\ ~pinchActive
    /\ pinchActive' = TRUE
    /\ gestureScale' = imageAnimatedValues.zoomLevel
    /\ lastOp' = "pinchStart"
    /\ UNCHANGED <<environment, imageAnimatedValues, cropperAnimatedValues,
                   translationStartX, translationStartY, cropStartX, cropStartY,
                   cropWidthStart, cropHeightStart, markers, race, touch, saveOutputs,
                   interrupted, saveCall>>

\* Mutant of PinchUpdateResult: the value is rebuilt around the new zoom
\* level, without the flips and the rotation.
PinchUpdateDroppingTransform(val, base, scale) ==
    [val EXCEPT !.zoomLevel = clamp(ScaledBy(base, scale), MIN_ZOOM, MAX_ZOOM),
                !.isFlippedX = FALSE, !.isFlippedY = FALSE, !.rotation = 0]

\* Mutant of PinchUpdateResult: the scale is applied to the current zoom
\* level, not to the one captured at the start of the pinch.
PinchUpdateFromCurrentZoom(val, base, scale) ==
    [val EXCEPT !.zoomLevel = clamp(ScaledBy(val.zoomLevel, scale), MIN_ZOOM, MAX_ZOOM)]

\* Mutant of PinchUpdateResult: the zoom also scales the sides of the image
\* box.
PinchUpdateScalingBox(val, base, scale) ==
    LET newZoomLevel == clamp(ScaledBy(base, scale), MIN_ZOOM, MAX_ZOOM)
    IN  [val EXCEPT !.zoomLevel = newZoomLevel,
                    !.width = (val.width * newZoomLevel) \div ZOOM_ONE,
                    !.height = (val.height * newZoomLevel) \div ZOOM_ONE]

\* pinchGesture.onUpdate, index.tsx 537-543.
PinchUpdateResult(val, base, scale) ==
    LET newZoomLevel == clamp(ScaledBy(base, scale), MIN_ZOOM, MAX_ZOOM)
    IN  [val EXCEPT !.zoomLevel = newZoomLevel]

pinchOnUpdate(scales) ==
    /\ pinchActive
    /\ \E scale \in scales :
           imageAnimatedValues' = PinchUpdateResult(imageAnimatedValues, gestureScale, scale)
    /\ interrupted' = (interrupted \/ race \in {"pan", "crop"})
    /\ saveCall' = SaveCallAfter(cropperAnimatedValues, imageAnimatedValues')
    /\ lastOp' = "pinchUpdate"
    /\ UNCHANGED <<environment, cropperAnimatedValues, baselines, markers, gestureState,
                   saveOutputs>>

\* The fingers of the pinch leave the screen.
pinchEnd ==
    /\ pinchActive
    /\ pinchActive' = FALSE
    /\ lastOp' = "pinchEnd"
    /\ UNCHANGED <<environment, imageAnimatedValues, cropperAnimatedValues, baselines,
                   markers, race, touch, saveOutputs, interrupted, saveCall>>

\* ------------------------------------------------- pan and edge-resize

\* Math.abs(position - edge) < CROP_PAN_GESTURE_HIT_SLOP, index.tsx 586-616.
NearEdge(position, edge) == Abs(position - edge) < CROP_PAN_GESTURE_HIT_SLOP * Unit

\* Mutant of TouchActivates: only the left and right edges are tested.
TouchActivatesVerticalEdgesOnly(t, cropperValues) ==
    \/ NearEdge(t.x, cropperValues.left)
    \/ NearEdge(t.x, cropperValues.left + cropperValues.width)

\* Mutant of TouchActivates: every touch activates the edge-resize.
TouchActivatesAlways(t, cropperValues) ==
    t.x = t.x /\ cropperValues.left = cropperValues.left

\* Whether cropGesture.onTouchesDown calls manager.activate(), index.tsx 582-599.
TouchActivates(t, cropperValues) ==
    \/ NearEdge(t.x, cropperValues.left)
    \/ NearEdge(t.x, cropperValues.left + cropperValues.width)
    \/ NearEdge(t.y, cropperValues.top)
    \/ NearEdge(t.y, cropperValues.top + cropperValues.height)

\* cropGesture.onTouchesDown, index.tsx 582-599: the first finger of a
\* one-finger gesture lands.  When it activates the edge-resize, the race is
\* decided and onStart follows; otherwise both recognizers wait.
cropOnTouchesDown(touches) ==
    /\ mounted
    /\ race = "idle"
    /\ \E p \in touches :
           LET t == [x |-> p.x * Unit, y |-> p.y * Unit]
           IN  IF TouchActivates(t, cropperAnimatedValues)
               THEN race' = "cropActivated" /\ touch' = t
               ELSE race' = "down" /\ touch' = t
    /\ interrupted' = FALSE
    /\ lastOp' = "touchesDown"
    /\ UNCHANGED <<environment, imageAnimatedValues, cropperAnimatedValues, baselines,
                   markers, pinchActive, saveOutputs, saveCall>>

\* Mutant of VerticalEdgeOnStart: the left edge is tested last and wins.
VerticalEdgeOnStartLeftLast(e, cropperValues, before) ==
    IF NearEdge(e.x, cropperValues.left) THEN "left"
    ELSE IF NearEdge(e.x, cropperValues.left + cropperValues.width) THEN "right"
    ELSE before

\* The edge markers after cropGesture.onStart, index.tsx 606-617.
VerticalEdgeOnStart(e, cropperValues, before) ==
    IF NearEdge(e.x, cropperValues.left + cropperValues.width) THEN "right"
    ELSE IF NearEdge(e.x, cropperValues.left) THEN "left"
    ELSE before

HorizontalEdgeOnStart(e, cropperValues, before) ==
    IF NearEdge(e.y, cropperValues.top + cropperValues.height) THEN "bottom"
    ELSE IF NearEdge(e.y, cropperValues.top) THEN "top"
    ELSE before

\* cropGesture.onStart, index.tsx 600-618.
cropOnStart ==
    /\ race = "cropActivated"
    /\ cropWidthStart' = cropperAnimatedValues.width
    /\ cropHeightStart' = cropperAnimatedValues.height
    /\ cropStartX' = cropperAnimatedValues.left
    /\ cropStartY' = cropperAnimatedValues.top
    /\ verticalEdgeBeingTouched' =
           VerticalEdgeOnStart(touch, cropperAnimatedValues, verticalEdgeBeingTouched)
    /\ horizontalEdgeBeingTouched' =
           HorizontalEdgeOnStart(touch, cropperAnimatedValues, horizontalEdgeBeingTouched)
    /\ race' = "crop"
    /\ lastOp' = "cropStart"
    /\ UNCHANGED <<environment, imageAnimatedValues, cropperAnimatedValues, gestureScale,
                   translationStartX, translationStartY, touch, pinchActive, saveOutputs,
                   interrupted, saveCall>>

\* Mutant of VerticalEdgeUpdate: the translation is applied to the current
\* rectangle, not to the one captured at the start of the gesture.
VerticalEdgeUpdateFromCurrent(val, edge, translationX, layout, startX, widthStart) ==
    IF edge = "left"
    THEN LET totalTranslationX ==
                 clamp(translationX, layout.left - val.left,
                       val.width - CROPPER_MIN_SIZE * Unit)
         IN  [val EXCEPT !.width = val.width - totalTranslationX,
                         !.left = val.left + totalTranslationX]
    ELSE IF edge = "right"
    THEN LET totalTranslationX ==
                 clamp(translationX, -val.width + CROPPER_MIN_SIZE * Unit,
                       layout.left + layout.width - (val.left + val.width))
         IN  [val EXCEPT !.width = val.width + totalTranslationX]
    ELSE val

\* Mutant of VerticalEdgeUpdate: the translation bounds leave out
\* CROPPER_MIN_SIZE.
VerticalEdgeUpdateNoMinSize(val, edge, translationX, layout, startX, widthStart) ==
    IF edge = "left"
    THEN LET totalTranslationX == clamp(translationX, layout.left - startX, widthStart)
         IN  [val EXCEPT !.width = widthStart - totalTranslationX,
                         !.left = startX + totalTranslationX]
    ELSE IF edge = "right"
    THEN LET totalTranslationX ==
                 clamp(translationX, -widthStart,
                       layout.left + layout.width - (startX + widthStart))
         IN  [val EXCEPT !.width = widthStart + totalTranslationX]
    ELSE val

\* Mutant of VerticalEdgeUpdate: a drag of the left edge moves the rectangle
\* and keeps its width.
VerticalEdgeUpdateLeftMovesBoth(val, edge, translationX, layout, startX, widthStart) ==
    IF edge = "left"
    THEN LET maximumAllowedTranlsationX == widthStart - CROPPER_MIN_SIZE * Unit
             minimumAllowedTranslationX == layout.left - startX
             totalTranslationX ==
                 clamp(translationX, minimumAllowedTranslationX, maximumAllowedTranlsationX)
         IN  [val EXCEPT !.left = startX + totalTranslationX]
    ELSE IF edge = "right"
    THEN LET maximumAllowedTranlsationX ==
                 layout.left + layout.width - (startX + widthStart)
             minimumAllowedTranslationX == -widthStart + CROPPER_MIN_SIZE * Unit
             totalTranslationX ==
                 clamp(translationX, minimumAllowedTranslationX, maximumAllowedTranlsationX)
         IN  [val EXCEPT !.width = widthStart + totalTranslationX]
    ELSE val

\* The left / right branch of cropGesture.onUpdate, index.tsx 620-655.
VerticalEdgeUpdate(val, edge, translationX, layout, startX, widthStart) ==
    IF edge = "left"
    THEN LET maximumAllowedTranlsationX == widthStart - CROPPER_MIN_SIZE * Unit
             minimumAllowedTranslationX == layout.left - startX
             totalTranslationX ==
                 clamp(translationX, minimumAllowedTranslationX, maximumAllowedTranlsationX)
         IN  [val EXCEPT !.width = widthStart - totalTranslationX,
                         !.left = startX + totalTranslationX]
    ELSE IF edge = "right"
    THEN LET maximumAllowedTranlsationX ==
                 layout.left + layout.width - (startX + widthStart)
             minimumAllowedTranslationX == -widthStart + CROPPER_MIN_SIZE * Unit
             totalTranslationX ==
                 clamp(translationX, minimumAllowedTranslationX, maximumAllowedTranlsationX)
         IN  [val EXCEPT !.width = widthStart + totalTranslationX]
    ELSE val

\* Mutant of HorizontalEdgeUpdate: a drag of the bottom edge also sets the
\* width to the new height.
HorizontalEdgeUpdateCoupled(val, edge, translationY, layout, startY, heightStart) ==
    IF edge = "top"
    THEN LET totalTranslationY ==
                 clamp(translationY, layout.top - startY,
                       heightStart - CROPPER_MIN_SIZE * Unit)
         IN  [val EXCEPT !.height = heightStart - totalTranslationY,
                         !.top = startY + totalTranslationY]
    ELSE IF edge = "bottom"
    THEN LET totalTranslationY ==
                 clamp(translationY, -heightStart + CROPPER_MIN_SIZE * Unit,
                       layout.top + layout.height - (startY + heightStart))
         IN  [val EXCEPT !.height = heightStart + totalTranslationY,
                         !.width = heightStart + totalTranslationY]
    ELSE val

\* The top / bottom branch of cropGesture.onUpdate, index.tsx 656-691.
HorizontalEdgeUpdate(val, edge, translationY, layout, startY, heightStart) ==
    IF edge = "top"
    THEN LET maximumAllowedTranlsationY == heightStart - CROPPER_MIN_SIZE * Unit
             minimumAllowedTranslationY == layout.top - startY
             totalTranslationY ==
                 clamp(translationY, minimumAllowedTranslationY, maximumAllowedTranlsationY)
         IN  [val EXCEPT !.height = heightStart - totalTranslationY,
                         !.top = startY + totalTranslationY]
    ELSE IF edge = "bottom"
    THEN LET maximumAllowedTranlsationY ==
                 layout.top + layout.height - (startY + heightStart)
             minimumAllowedTranslationY == -heightStart + CROPPER_MIN_SIZE * Unit
             totalTranslationY ==
                 clamp(translationY, minimumAllowedTranslationY, maximumAllowedTranlsationY)
         IN  [val EXCEPT !.height = heightStart + totalTranslationY]
    ELSE val

\* cropGesture.onUpdate, index.tsx 619-692.
cropOnUpdate(translations) ==
    /\ race = "crop"
    /\ \E dx \in translations, dy \in translations :
           cropperAnimatedValues' =
               HorizontalEdgeUpdate(
                   VerticalEdgeUpdate(cropperAnimatedValues, verticalEdgeBeingTouched,
                                      dx * Unit, initialImageLayout, cropStartX,
                                      cropWidthStart),
                   horizontalEdgeBeingTouched, dy * Unit, initialImageLayout, cropStartY,
                   cropHeightStart)
    /\ saveCall' = SaveCallAfter(cropperAnimatedValues', imageAnimatedValues)
    /\ lastOp' = "cropUpdate"
    /\ UNCHANGED <<environment, imageAnimatedValues, baselines, markers, gestureState,
                   saveOutputs, interrupted>>

\* Mutant of cropOnFinalize: the end of the gesture leaves the markers set.
cropOnFinalizeKeepingMarkers ==
    /\ race \in {"crop", "down"}
    /\ race' = "idle"
    /\ touch' = NoTouch
    /\ lastOp' = "cropFinalize"
    /\ UNCHANGED <<environment, imageAnimatedValues, cropperAnimatedValues, baselines,
                   markers, pinchActive, saveOutputs, interrupted, saveCall>>

\* cropGesture.onFinalize, index.tsx 693-696: the edge-resize ends, or the
\* finger lifts before either recognizer activated.
cropOnFinalize ==
    /\ race \in {"crop", "down"}
    /\ verticalEdgeBeingTouched' = "null"
    /\ horizontalEdgeBeingTouched' = "null"
    /\ race' = "idle"
    /\ touch' = NoTouch
    /\ lastOp' = "cropFinalize"
    /\ UNCHANGED <<environment, imageAnimatedValues, cropperAnimatedValues, baselines,
                   pinchActive, saveOutputs, interrupted, saveCall>>

\* panGesture.onStart, index.tsx 551-554: the pan wins the race when the
\* edge-resize did not activate on the touch.
panOnStart ==
    /\ race = "down"
    /\ translationStartX' = cropperAnimatedValues.left
    /\ translationStartY' = cropperAnimatedValues.top
    /\ race' = "pan"
    /\ touch' = NoTouch
    /\ lastOp' = "panStart"
    /\ UNCHANGED <<environment, imageAnimatedValues, cropperAnimatedValues, gestureScale,
                   cropStartX, cropStartY, cropWidthStart, cropHeightStart, markers,
                   pinchActive, saveOutputs, interrupted, saveCall>>

\* Mutant of PanUpdateResult: the translation is added to the current
\* position, not to the one captured at the start of the pan.
PanUpdateFromCurrent(val, eventX, eventY, layout, startX, startY) ==
    LET maxRight == layout.left + layout.width - val.width
        maxBottom == layout.top + layout.height - val.height
    IN  [val EXCEPT !.left = clamp(val.left + eventX, layout.left, maxRight),
                    !.top = clamp(val.top + eventY, layout.top, maxBottom)]

\* panGesture.onUpdate, index.tsx 555-566.
PanUpdateResult(val, eventX, eventY, layout, startX, startY) ==
    LET translationX == startX + eventX
        translationY == startY + eventY
        maxRight == layout.left + layout.width - val.width
        maxBottom == layout.top + layout.height - val.height
    IN  [val EXCEPT !.left = clamp(translationX, layout.left, maxRight),
                    !.top = clamp(translationY, layout.top, maxBottom)]

panOnUpdate(translations) ==
    /\ race = "pan"
    /\ \E dx \in translations, dy \in translations :
           cropperAnimatedValues' =
               PanUpdateResult(cropperAnimatedValues, dx * Unit, dy * Unit,
                               initialImageLayout, translationStartX, translationStartY)
    /\ saveCall' = SaveCallAfter(cropperAnimatedValues', imageAnimatedValues)
    /\ lastOp' = "panUpdate"
    /\ UNCHANGED <<environment, imageAnimatedValues, baselines, markers, gestureState,
                   saveOutputs, interrupted>>

\* The finger of the pan lifts.
panEnd ==
    /\ race = "pan"
    /\ race' = "idle"
    /\ lastOp' = "panEnd"
    /\ UNCHANGED <<environment, imageAnimatedValues, cropperAnimatedValues, baselines,
                   markers, touch, pinchActive, saveOutputs, interrupted, saveCall>>

\* ----------------------------------------------------------------- view

\* The props of an editor that is not rendered.
NoProps == [canvasWidth |-> 0, canvasHeight |-> 0, imageFileWidth |-> 0, imageFileHeight |-> 0]

\* Mutant of InnerUnmounted: the editor stays rendered with its state.
InnerLeftInPlace ==
    UNCHANGED <<props, mounted, mountedSource, initialImageLayout, imageAnimatedValues,
                cropperAnimatedValues, gestureScale, translationStartX, translationStartY,
                cropStartX, cropStartY, cropWidthStart, cropHeightStart,
                verticalEdgeBeingTouched, horizontalEdgeBeingTouched, race, touch,
                pinchActive>>

\* ImageManipluationInner is not rendered: ImageManipulationView shows
\* "Loading..." or "Error: ..." (index.tsx 205-219), or the canvas has no
\* layout yet (index.tsx 290).  Its shared values do not exist.
InnerUnmounted ==
    /\ props' = NoProps
    /\ mounted' = FALSE
    /\ mountedSource' = ""
    /\ initialImageLayout' = NoRect
    /\ imageAnimatedValues' = NoImage
    /\ cropperAnimatedValues' = NoRect
    /\ gestureScale' = 0
    /\ translationStartX' = 0
    /\ translationStartY' = 0
    /\ cropStartX' = 0
    /\ cropStartY' = 0
    /\ cropWidthStart' = 0
    /\ cropHeightStart' = 0
    /\ verticalEdgeBeingTouched' = "null"
    /\ horizontalEdgeBeingTouched' = "null"
    /\ race' = "idle"
    /\ touch' = NoTouch
    /\ pinchActive' = FALSE

\* ImageManipluationInner is rendered for the first time under a key
\* (index.tsx 291-301, 330-378).
InnerMounted(cfg) ==
    LET layout ==
            ComputeInitialImageLayout(cfg.canvasWidth, cfg.canvasHeight,
                                      cfg.imageFileWidth, cfg.imageFileHeight)
    IN  /\ props' = cfg
        /\ mounted' = TRUE
        /\ mountedSource' = sourceUri
        /\ initialImageLayout' = layout
        /\ imageAnimatedValues' = ImageOfLayout(layout)
        /\ cropperAnimatedValues' = CropperOfLayout(layout)
        /\ gestureScale' = ZOOM_ONE
        /\ translationStartX' = 0
        /\ translationStartY' = 0
        /\ cropStartX' = 0
        /\ cropStartY' = 0
        /\ cropWidthStart' = 0
        /\ cropHeightStart' = 0
        /\ verticalEdgeBeingTouched' = "null"
        /\ horizontalEdgeBeingTouched' = "null"
        /\ race' = "idle"
        /\ touch' = NoTouch
        /\ pinchActive' = FALSE

\* ImageManipluationInner keeps its instance and its state.
InnerKept ==
    UNCHANGED <<props, mounted, mountedSource, initialImageLayout, imageAnimatedValues,
                cropperAnimatedValues, baselines, markers, gestureState>>

\* The key of ImageManipluationInner, index.tsx 298.
InnerKey(cfg) ==
    <<cfg.canvasWidth, cfg.canvasHeight, cfg.imageFileWidth, cfg.imageFileHeight>>

\* The render that follows a new imageState (index.tsx 205-231, 290-302):
\* without success the canvas is not rendered; with success a rendered
\* editor is kept when its key is unchanged and replaced otherwise; an
\* editor that was not rendered waits for onLayout.
Render(state) ==
    IF ~state.isSuccess THEN InnerUnmounted
    ELSE IF ~mounted THEN InnerKept
    ELSE LET cfg == Config(props.canvasWidth, props.canvasHeight, state.width, state.height)
         IN  IF InnerKey(cfg) = InnerKey(props) THEN InnerKept ELSE InnerMounted(cfg)

\* The effect of useImageState runs, index.tsx 161-195: the cleanup of the
\* previous run cancels its request, then a request is made for the
\* current source with the current retryCount in its callbacks.
runEffect ==
    /\ viewMounted
    /\ effectDue
    /\ LET request == Request(sourceUri, imageState.retryCount)
       IN  /\ requests' = Cancel(requests, pendingGetImageSize) \cup {request}
           /\ pendingGetImageSize' = request
    /\ effectDue' = FALSE
    /\ attempts' = attempts + 1
    /\ lastCallback' = "none"
    /\ lastOp' = "runEffect"
    /\ InnerKept
    /\ UNCHANGED <<sourceUri, saveOutputs, interrupted, saveCall, viewMounted,
                   imageState, onErrorArg,
                   sourceChanges>>

\* The callback of a request arrives after cancel(), index.tsx 117, 122.
staleCallback(r) ==
    /\ ~Delivered(r)
    /\ requests' = requests \ {r}
    /\ lastCallback' = "none"
    /\ lastOp' = "staleCallback"
    /\ InnerKept
    /\ UNCHANGED <<sourceUri, saveOutputs, interrupted, saveCall, viewMounted,
                   imageState, effectDue,
                   pendingGetImageSize, onErrorArg, attempts, sourceChanges>>

\* Image.getSize succeeds: index.tsx 116-120, handleImageSizeSuccess 164-167,
\* and the render with the new state.
getSizeSuccess ==
    \E r \in requests :
        \/ staleCallback(r)
        \/ /\ Delivered(r)
           /\ requests' = requests \ {r}
           /\ lastCallback' = "onLoad"
           /\ LET size == ImageSize(r.uri)
                  payload ==
                      [aspectRatio |-> AspectRatio(size.width, size.height),
                       width |-> size.width, height |-> size.height]
              IN  /\ imageState' = reducerSuccess(imageState, payload)
                  /\ Render(reducerSuccess(imageState, payload))
           /\ lastOp' = "getSizeSuccess"
           /\ UNCHANGED <<sourceUri, saveOutputs, interrupted, saveCall, viewMounted, effectDue,
                          pendingGetImageSize, onErrorArg, attempts, sourceChanges>>

\* Image.getSize fails with a message: index.tsx 121-125,
\* handleImageSizeFailure 169-177, and the render with the new state.  A new
\* retryCount is a changed dependency of the effect (index.tsx 195).
getSizeFailure ==
    \E r \in requests, errMessage \in ErrorMessages :
        \/ staleCallback(r)
        \/ /\ Delivered(r)
           /\ requests' = requests \ {r}
           /\ IF RetriesExhausted(r.retryCount)
              THEN /\ lastCallback' = "onError"
                   /\ onErrorArg' = errMessage
                   /\ imageState' = reducerFailure(imageState, errMessage)
                   /\ UNCHANGED effectDue
              ELSE /\ imageState' = reducerAutoRetry(imageState)
                   /\ effectDue' = TRUE
                   /\ lastCallback' = "none"
                   /\ UNCHANGED onErrorArg
           /\ InnerUnmounted
           /\ lastOp' = "getSizeFailure"
           /\ UNCHANGED <<sourceUri, saveOutputs, interrupted, saveCall, viewMounted,
                          pendingGetImageSize,
                          attempts, sourceChanges>>

\* The parent renders ImageManipulationView with another source: a changed
\* dependency of the effect (index.tsx 153-159, 195).  The reducer state
\* and the rendered editor are kept.
changeSource ==
    /\ viewMounted
    /\ sourceChanges < MaxSourceChanges
    /\ \E uri \in Sources \ {sourceUri} : sourceUri' = uri
    /\ effectDue' = TRUE
    /\ attempts' = 0
    /\ sourceChanges' = sourceChanges + 1
    /\ lastCallback' = "none"
    /\ lastOp' = "changeSource"
    /\ InnerKept
    /\ UNCHANGED <<saveOutputs, interrupted, saveCall, viewMounted, imageState, requests,
                   pendingGetImageSize,
                   onErrorArg>>

\* onLayout of the canvas, index.tsx 286-288, with a size that differs
\* from the one in use: ImageManipluationInner is rendered under a new key.
onLayout ==
    /\ viewMounted
    /\ imageState.isSuccess
    /\ \E canvasLayout \in CanvasLayouts :
           /\ mounted =>
                  <<canvasLayout.width, canvasLayout.height>> /=
                      <<props.canvasWidth, props.canvasHeight>>
           /\ InnerMounted(Config(canvasLayout.width, canvasLayout.height,
                                  imageState.width, imageState.height))
    /\ lastOp' = "onLayout"
    /\ UNCHANGED <<sourceUri, saveOutputs, interrupted, saveCall, loader>>

\* ImageManipulationView leaves the tree: the effect cleanup runs
\* (index.tsx 192-194) and nothing is rendered.
unmountView ==
    /\ viewMounted
    /\ viewMounted' = FALSE
    /\ requests' = Cancel(requests, pendingGetImageSize)
    /\ effectDue' = FALSE
    /\ InnerUnmounted
    /\ lastCallback' = "none"
    /\ lastOp' = "unmountView"
    /\ UNCHANGED <<sourceUri, saveOutputs, interrupted, saveCall, imageState,
                   pendingGetImageSize, onErrorArg,
                   attempts, sourceChanges>>

\* ------------------------------------------------------- specifications

\* The mounted editor under every handler.
Init == \E cfg \in ControlConfigs : Mounted(cfg)

Next ==
    \/ handleFlipX
    \/ handleFlipY
    \/ handleRotateRight
    \/ handleReset
    \/ handleSave
    \/ pinchOnStart
    \/ pinchOnUpdate(ControlPinchScales)
    \/ pinchEnd
    \/ cropOnTouchesDown(ControlTouches)
    \/ cropOnStart
    \/ cropOnUpdate(ControlTranslations)
    \/ cropOnFinalize
    \/ panOnStart
    \/ panOnUpdate(ControlTranslations)
    \/ panEnd

Spec == Init /\ [][Next]_vars

\* The crop rectangle under the one-finger gestures and reset.
InitGestures == \E cfg \in GestureConfigs : Mounted(cfg)

NextGestures ==
    \/ handleReset
    \/ cropOnTouchesDown(GestureTouches)
    \/ cropOnStart
    \/ cropOnUpdate(GestureTranslations)
    \/ cropOnFinalize
    \/ panOnStart
    \/ panOnUpdate(GestureTranslations)
    \/ panEnd

SpecGestures == InitGestures /\ [][NextGestures]_vars

\* The one-finger gestures alone: no reset in the middle of a gesture.
InitDrag == \E cfg \in GestureConfigs : Mounted(cfg)

NextDrag ==
    \/ cropOnTouchesDown(GestureTouches)
    \/ cropOnStart
    \/ cropOnUpdate(GestureTranslations)
    \/ cropOnFinalize
    \/ panOnStart
    \/ panOnUpdate(GestureTranslations)
    \/ panEnd

SpecDrag == InitDrag /\ [][NextDrag]_vars

\* The pinch over every scale, and reset.
InitPinch == \E cfg \in ControlConfigs : Mounted(cfg)

NextPinch ==
    \/ handleReset
    \/ pinchOnStart
    \/ pinchOnUpdate(PinchScales)
    \/ pinchEnd

SpecPinch == InitPinch /\ [][NextPinch]_vars

\* The layout computation over canvases and images.
InitLayout ==
    \E cw \in LayoutCanvasSides, ch \in LayoutCanvasSides,
       fw \in LayoutImageSides, fh \in LayoutImageSides :
        Unmounted(Config(cw, ch, fw, fh))

NextLayout == Mount

SpecLayout == InitLayout /\ [][NextLayout]_vars

\* ImageManipulationView from its first render: the loader, the canvas
\* layout, and the buttons of the control surface.
InitView ==
    /\ sourceUri \in Sources
    /\ viewMounted = TRUE
    /\ imageState = initialState
    /\ effectDue = TRUE
    /\ requests = {}
    /\ pendingGetImageSize = NoRequest
    /\ lastCallback = "none"
    /\ onErrorArg = "not called"
    /\ attempts = 0
    /\ sourceChanges = 0
    /\ props = NoProps
    /\ mounted = FALSE
    /\ mountedSource = ""
    /\ initialImageLayout = NoRect
    /\ imageAnimatedValues = NoImage
    /\ cropperAnimatedValues = NoRect
    /\ gestureScale = 0
    /\ translationStartX = 0
    /\ translationStartY = 0
    /\ cropStartX = 0
    /\ cropStartY = 0
    /\ cropWidthStart = 0
    /\ cropHeightStart = 0
    /\ verticalEdgeBeingTouched = "null"
    /\ horizontalEdgeBeingTouched = "null"
    /\ race = "idle"
    /\ touch = NoTouch
    /\ pinchActive = FALSE
    /\ saveReturn = "not called"
    /\ onSaveArg = "not called"
    /\ lastOp = "none"
    /\ interrupted = FALSE
    /\ saveCall = NoSaveCall

NextView ==
    \/ runEffect
    \/ getSizeSuccess
    \/ getSizeFailure
    \/ changeSource
    \/ onLayout
    \/ unmountView
    \/ handleFlipX
    \/ handleFlipY
    \/ handleRotateRight
    \/ handleReset
    \/ handleSave

SpecView == InitView /\ [][NextView]_vars

\* The loader alone: the canvas never reports a layout.
InitLoader == InitView

NextLoader ==
    \/ runEffect
    \/ getSizeSuccess
    \/ getSizeFailure
    \/ changeSource
    \/ unmountView

SpecLoader == InitLoader /\ [][NextLoader]_vars

\* The loader with one source for good: every effect that is due runs
\* (React runs the effects of a commit), and every request made is answered.
InitLoaderFair == InitView

NextLoaderFair ==
    \/ runEffect
    \/ getSizeSuccess
    \/ getSizeFailure
    \/ unmountView

SpecLoaderFair ==
    /\ InitLoaderFair
    /\ [][NextLoaderFair]_vars
    /\ WF_vars(runEffect)
    /\ WF_vars(getSizeSuccess \/ getSizeFailure)

\* The one-finger gestures with the control surface and the pinch acting in
\* the middle of them.
InterruptedConfigs == {Config(60, 60, 100, 100), Config(60, 60, 100, 400)}

InitInterrupted == \E cfg \in InterruptedConfigs : Mounted(cfg)

\* The touches and translations of these gestures: a touch at the left
\* edge, in the middle and off every edge of a narrowed crop rectangle.
InterruptedTouches == {[x |-> x, y |-> 30] : x \in {15, 30, 39}}
InterruptedTranslations == {-18, 18}

NextInterrupted ==
    \/ handleReset
    \/ handleFlipX
    \/ handleFlipY
    \/ handleRotateRight
    \/ pinchOnStart
    \/ pinchOnUpdate(ControlPinchScales)
    \/ pinchEnd
    \/ cropOnTouchesDown(InterruptedTouches)
    \/ cropOnStart
    \/ cropOnUpdate(InterruptedTranslations)
    \/ cropOnFinalize
    \/ panOnStart
    \/ panOnUpdate(InterruptedTranslations)
    \/ panEnd

SpecInterrupted == InitInterrupted /\ [][NextInterrupted]_vars

\* save() with its two reads apart, among the callbacks of the gestures,
\* which run on the UI thread.  The other handlers of the control surface
\* share the JS thread with save() and cannot run between its reads.
InitSaveReads == \E cfg \in InterruptedConfigs : Mounted(cfg)

NextSaveReads ==
    \/ handleSaveReadCropper
    \/ handleSaveReadImage
    \/ pinchOnStart
    \/ pinchOnUpdate(ControlPinchScales)
    \/ pinchEnd
    \/ cropOnTouchesDown(InterruptedTouches)
    \/ cropOnStart
    \/ cropOnUpdate(InterruptedTranslations)
    \/ cropOnFinalize
    \/ panOnStart
    \/ panOnUpdate(InterruptedTranslations)
    \/ panEnd

SpecSaveReads == InitSaveReads /\ [][NextSaveReads]_vars

\* ---------------------------------------------------------- properties

\* Rectangle r lies inside rectangle box.
Inside(r, box) ==
    /\ box.left <= r.left
    /\ box.top <= r.top
    /\ r.left + r.width <= box.left + box.width
    /\ r.top + r.height <= box.top + box.height

MinSize == CROPPER_MIN_SIZE * Unit

\* C1 (as claimed): under any sequence of pan and edge-resize gestures, for
\* every viewport and image aspect ratio, the crop rectangle lies inside
\* the layout.
C1_CropInsideLayout == mounted => Inside(cropperAnimatedValues, initialImageLayout)

\* C2 (as claimed): in every reachable state the crop rectangle is at least
\* CROPPER_MIN_SIZE wide and high, for every viewport and aspect ratio.
C2_Original_AtLeastMinSize ==
    mounted =>
        /\ cropperAnimatedValues.width >= MinSize
        /\ cropperAnimatedValues.height >= MinSize

\* C2 (amended): in every reachable state the crop rectangle is at least
\* min(CROPPER_MIN_SIZE, Layout.width) wide and min(CROPPER_MIN_SIZE,
\* Layout.height) high; so at least CROPPER_MIN_SIZE on every axis on which
\* the layout is.
C2_AtLeastMinSizeOrLayout ==
    mounted =>
        /\ cropperAnimatedValues.width >= Min(MinSize, initialImageLayout.width)
        /\ cropperAnimatedValues.height >= Min(MinSize, initialImageLayout.height)

\* C2 witness: an edge-resize update has shrunk the crop rectangle of a
\* layout larger than the minimum down to exactly the minimum width.
C2_Witness ==
    /\ lastOp = "cropUpdate"
    /\ initialImageLayout.width > MinSize
    /\ cropperAnimatedValues.width = MinSize
    /\ initialImageLayout.height < MinSize
    /\ cropperAnimatedValues.height >= initialImageLayout.height

\* C3: after reset(), whatever came before, the transform state is the
\* layout position with no flip, rotation 0 and zoom 1, and the crop
\* rectangle is the layout.
C3_ResetRestoresLayout ==
    lastOp = "reset" =>
        /\ imageAnimatedValues.left = initialImageLayout.left
        /\ imageAnimatedValues.top = initialImageLayout.top
        /\ imageAnimatedValues.width = initialImageLayout.width
        /\ imageAnimatedValues.height = initialImageLayout.height
        /\ imageAnimatedValues.isFlippedX = FALSE
        /\ imageAnimatedValues.isFlippedY = FALSE
        /\ imageAnimatedValues.rotation = 0
        /\ imageAnimatedValues.zoomLevel = ZOOM_ONE
        /\ cropperAnimatedValues.left = initialImageLayout.left
        /\ cropperAnimatedValues.top = initialImageLayout.top
        /\ cropperAnimatedValues.width = initialImageLayout.width
        /\ cropperAnimatedValues.height = initialImageLayout.height

\* C3 witness: reset() has run in the middle of an edge-resize and of a
\* pinch, after an earlier pinch had zoomed the image and an earlier
\* gesture had moved the crop rectangle.
C3_Witness ==
    /\ lastOp = "reset"
    /\ race = "crop"
    /\ pinchActive
    /\ gestureScale = MAX_ZOOM
    /\ cropStartX # initialImageLayout.left

\* Whether save() has to accept: a valid source and the crop rectangle
\* inside the bounding box of the transform state.
SaveAcceptable ==
    /\ sourceUri # ""
    /\ Inside(cropperAnimatedValues, imageAnimatedValues)

\* C4 (as claimed): save() returns an EditResult to its caller exactly when
\* the source is valid and the crop rectangle is inside the transform
\* state's box; otherwise it returns undefined and calls nothing.
C4_SaveReturnsResultIffAcceptable ==
    lastOp = "save" =>
        /\ (saveReturn # "undefined") <=> SaveAcceptable
        /\ ~SaveAcceptable => onSaveArg = "not called"

\* The dimensions the projection divides by and multiplies with: swapped
\* between width and height exactly when rotation % 180 # 0.
Swapped == imageAnimatedValues.rotation % 180 # 0
SourceW == IF Swapped THEN props.imageFileHeight ELSE props.imageFileWidth
SourceH == IF Swapped THEN props.imageFileWidth ELSE props.imageFileHeight
ViewW == IF Swapped THEN imageAnimatedValues.height ELSE imageAnimatedValues.width
ViewH == IF Swapped THEN imageAnimatedValues.width ELSE imageAnimatedValues.height

\* C5 (as claimed): an accepted save() yields the crop rectangle projected
\* into source pixels (offset and size divided by the view dimensions and
\* multiplied by the source dimensions, both swapped under a quarter turn)
\* and echoes the flips, the rotation and the zoom level.  The quotients
\* are stated multiplied out.
C5_SaveProjectsCrop ==
    (lastOp = "save" /\ SaveAcceptable) =>
        /\ saveReturn # "undefined"
        /\ saveReturn.cropLeftOffset * ViewW
               = (cropperAnimatedValues.left - imageAnimatedValues.left) * SourceW
        /\ saveReturn.cropTopOffset * ViewH
               = (cropperAnimatedValues.top - imageAnimatedValues.top) * SourceH
        /\ saveReturn.cropWidth * ViewW = cropperAnimatedValues.width * SourceW
        /\ saveReturn.cropHeight * ViewH = cropperAnimatedValues.height * SourceH
        /\ saveReturn.isFlippedX = imageAnimatedValues.isFlippedX
        /\ saveReturn.isFlippedY = imageAnimatedValues.isFlippedY
        /\ saveReturn.rotation = imageAnimatedValues.rotation
        /\ saveReturn.zoomLevel = imageAnimatedValues.zoomLevel

\* C6: the initial layout lies inside the viewport, has the image's aspect
\* ratio, takes the viewport's width when the image is relatively wider
\* than the viewport and its height otherwise, sits at offset 0 on the
\* fitted axis and centred on the other; a 300 x 300 viewport and aspect
\* ratio 2 give {left 0, top 75, width 300, height 150}.
C6_ContainLayout ==
    mounted =>
        LET layout == initialImageLayout
            canvasWidth == props.canvasWidth * Unit
            canvasHeight == props.canvasHeight * Unit
            fw == props.imageFileWidth
            fh == props.imageFileHeight
        IN  /\ 0 <= layout.left
            /\ 0 <= layout.top
            /\ layout.width > 0
            /\ layout.height > 0
            /\ layout.left + layout.width <= canvasWidth
            /\ layout.top + layout.height <= canvasHeight
            /\ layout.width * fh = layout.height * fw
            /\ fw * props.canvasHeight > props.canvasWidth * fh =>
                   /\ layout.width = canvasWidth
                   /\ layout.left = 0
                   /\ 2 * layout.top = canvasHeight - layout.height
            /\ fw * props.canvasHeight <= props.canvasWidth * fh =>
                   /\ layout.height = canvasHeight
                   /\ layout.top = 0
                   /\ 2 * layout.left = canvasWidth - layout.width
            /\ (props.canvasWidth = 300 /\ props.canvasHeight = 300 /\ fw = 2 * fh) =>
                   layout = [left |-> 0, top |-> 75 * Unit, width |-> 300 * Unit,
                             height |-> 150 * Unit]

\* C6 witness: the editor of a 200 x 100 image has been laid out in a
\* 300 x 300 viewport, fitted to the width and centred vertically.
C6_Witness ==
    /\ mounted
    /\ lastOp = "mount"
    /\ props = Config(300, 300, 200, 100)
    /\ initialImageLayout.top = 75 * Unit
    /\ initialImageLayout.height = 150 * Unit

RECURSIVE RotateTimes(_, _)
\* n calls of rotateRight() in a row.
RotateTimes(val, n) == IF n = 0 THEN val ELSE RotateTimes(RotateRightResult(val), n - 1)

\* C8 (as claimed): rotateRight() sets rotation to (rotation + 90) mod 360,
\* rotation stays in {0, 90, 180, 270}, and no operation other than
\* rotateRight() changes rotation (so that four rotateRight() calls, with
\* anything else between them, return it to its value).
C8_Original_OnlyRotateChangesRotation ==
    [][ /\ imageAnimatedValues'.rotation \in {0, 90, 180, 270}
        /\ lastOp' = "rotateRight" =>
               imageAnimatedValues'.rotation = (imageAnimatedValues.rotation + 90) % 360
        /\ lastOp' # "rotateRight" =>
               imageAnimatedValues'.rotation = imageAnimatedValues.rotation
      ]_vars

\* C8 (amended): rotateRight() sets rotation to (rotation + 90) mod 360,
\* rotation stays in {0, 90, 180, 270}, four rotateRight() calls in a row
\* return it to its value, and of the other operations only reset()
\* changes rotation.
C8_RotateRightQuarterTurns ==
    [][ /\ imageAnimatedValues'.rotation \in {0, 90, 180, 270}
        /\ lastOp' = "rotateRight" =>
               imageAnimatedValues'.rotation = (imageAnimatedValues.rotation + 90) % 360
        /\ lastOp' \notin {"rotateRight", "reset"} =>
               imageAnimatedValues'.rotation = imageAnimatedValues.rotation
        /\ RotateTimes(imageAnimatedValues, 4).rotation = imageAnimatedValues.rotation
      ]_vars

\* C8 witness: a rotateRight() at rotation 270 has wrapped to 0.
C8_Witness ==
    /\ lastOp = "rotateRight"
    /\ imageAnimatedValues.rotation = 0

\* C9: flipX(), then 4k rotateRight() calls, then flipX() again leave
\* isFlippedX and isFlippedY as they were; likewise for flipY().
C9_FlipTwiceRestoresFlags ==
    mounted =>
        \A k \in 0..MaxRotateCycles :
            LET start == imageAnimatedValues
                twiceX == FlipXResult(RotateTimes(FlipXResult(start), 4 * k))
                twiceY == FlipYResult(RotateTimes(FlipYResult(start), 4 * k))
            IN  /\ twiceX.isFlippedX = start.isFlippedX
                /\ twiceX.isFlippedY = start.isFlippedY
                /\ twiceY.isFlippedX = start.isFlippedX
                /\ twiceY.isFlippedY = start.isFlippedY

\* C9 witness: a flipX() at rotation 90 has cleared isFlippedY again, which
\* an earlier flipX() or flipY() had set, and both flags are clear.
C9_Witness ==
    /\ lastOp = "flipX"
    /\ imageAnimatedValues.rotation = 90
    /\ ~imageAnimatedValues.isFlippedX
    /\ ~imageAnimatedValues.isFlippedY

\* C10: rotateRight() changes nothing but the rotation: the flips, the zoom
\* level, the image box and the crop rectangle are as before the call.
C10_RotateRightFrame ==
    [][ lastOp' = "rotateRight" =>
            /\ imageAnimatedValues'.isFlippedX = imageAnimatedValues.isFlippedX
            /\ imageAnimatedValues'.isFlippedY = imageAnimatedValues.isFlippedY
            /\ imageAnimatedValues'.zoomLevel = imageAnimatedValues.zoomLevel
            /\ imageAnimatedValues'.left = imageAnimatedValues.left
            /\ imageAnimatedValues'.top = imageAnimatedValues.top
            /\ imageAnimatedValues'.width = imageAnimatedValues.width
            /\ imageAnimatedValues'.height = imageAnimatedValues.height
            /\ cropperAnimatedValues' = cropperAnimatedValues
      ]_vars

\* C10 witness: rotateRight() has run on a flipped, zoomed image whose crop
\* rectangle had been resized.
C10_Witness ==
    /\ lastOp = "rotateRight"
    /\ imageAnimatedValues.rotation = 90
    /\ imageAnimatedValues.isFlippedX
    /\ imageAnimatedValues.zoomLevel = MAX_ZOOM
    /\ cropperAnimatedValues.width # initialImageLayout.width

\* C11: retryCount never exceeds maxRetries.  A failure that arrives when
\* retryCount has reached maxRetries calls onError and enters the error
\* state, both with the failure's message; a failure that arrives earlier
\* increments retryCount, keeps the state loading, calls no callback and
\* schedules another attempt.  The error state is entered and onError is
\* called by no other step.
C11_RetriesBoundedAndErrorOnlyWhenExhausted ==
    [][/\ imageState'.retryCount <= maxRetries
       /\ lastOp' = "getSizeFailure" =>
              IF imageState.retryCount >= maxRetries
              THEN /\ imageState'.isError
                   /\ ~imageState'.isLoading
                   /\ imageState'.error \in ErrorMessages
                   /\ imageState'.error = onErrorArg'
                   /\ lastCallback' = "onError"
                   /\ imageState'.retryCount = imageState.retryCount
              ELSE /\ imageState'.isLoading
                   /\ ~imageState'.isError
                   /\ imageState'.retryCount = imageState.retryCount + 1
                   /\ lastCallback' = "none"
                   /\ onErrorArg' = onErrorArg
                   /\ effectDue'
       /\ (imageState'.isError /\ imageState' /= imageState) =>
              lastOp' = "getSizeFailure" /\ imageState.retryCount = maxRetries
       /\ lastCallback' = "onError" =>
              lastOp' = "getSizeFailure" /\ imageState.retryCount = maxRetries]_vars

\* C11 witness: the failure after the last retry has put the loader into the
\* error state with its message.
C11_Witness ==
    /\ lastOp = "getSizeFailure"
    /\ imageState.isError
    /\ imageState.retryCount = maxRetries
    /\ imageState.error = "not found"
    /\ onErrorArg = "not found"

\* C12 (as claimed): with the default configuration at most 10 retrieval
\* attempts are made for a source.
C12_Original_AtMostTenAttempts == attempts <= 10

\* C12 (amended): with the default configuration at most 11 retrieval
\* attempts are made for a source, the first one and maxRetries retries.
C12_AtMostRetriesPlusOneAttempts == attempts <= maxRetries + 1

\* C12 witness: the terminal error is reported after the eleventh attempt.
C12_Witness ==
    /\ lastOp = "getSizeFailure"
    /\ imageState.isError
    /\ attempts = maxRetries + 1

\* C13: when the callback of a cancelled request arrives, the loader state
\* is unchanged and neither onLoad nor onError is called; every request in
\* flight other than the one made by the latest run of the effect is
\* cancelled, and after teardown every request in flight is cancelled.
C13_CancelledRequestHasNoEffect ==
    [][/\ \A r \in requests :
              (r.cancelled /\ r \notin requests') =>
                  /\ imageState' = imageState
                  /\ lastCallback' = "none"
                  /\ onErrorArg' = onErrorArg
                  /\ effectDue' = effectDue
       /\ \A r \in requests' : r /= pendingGetImageSize' => r.cancelled
       /\ ~viewMounted' => \A r \in requests' : r.cancelled]_vars

\* C13 witness: the callback of a superseded request has arrived after the
\* request of the new source succeeded.
C13_Witness ==
    /\ lastOp = "staleCallback"
    /\ viewMounted
    /\ sourceChanges = 1
    /\ imageState.isSuccess
    /\ requests = {}

\* The rendered editor holds the values derived from the layout of its
\* canvas and image file size, as after its first render.
EditorRebuilt ==
    LET layout ==
            ComputeInitialImageLayout(props.canvasWidth, props.canvasHeight,
                                      props.imageFileWidth, props.imageFileHeight)
    IN  /\ initialImageLayout = layout
        /\ imageAnimatedValues = ImageOfLayout(layout)
        /\ cropperAnimatedValues = CropperOfLayout(layout)

\* C14 (as claimed): when onLayout has reported a new canvas size, and when
\* the size of a source that replaced the one the editor was first rendered
\* with has been delivered (also a size equal to the previous image's), the
\* rendered editor holds the layout-derived initial values: no flip,
\* rotation, zoom or crop edit is left.
C14_RebuiltOnViewportOrImageChange ==
    (/\ mounted
     /\ \/ lastOp = "onLayout"
        \/ /\ lastOp = "getSizeSuccess"
           /\ mountedSource /= sourceUri
           /\ ~effectDue
           /\ pendingGetImageSize.uri = sourceUri
           /\ pendingGetImageSize \notin requests)
        => EditorRebuilt

\* C18: while the loader state is loading or error the editor is not
\* rendered and its layout, image and crop values do not exist; no reset,
\* flip, rotate or save step happens outside the success state; the editor
\* is first rendered in the success state, with layout-derived values; and
\* a failure with the retries exhausted ends in the error state carrying
\* the failure's message.
C18_NoEditorWithoutSuccess ==
    [][/\ (imageState'.isLoading \/ imageState'.isError) =>
              /\ ~mounted'
              /\ initialImageLayout' = NoRect
              /\ imageAnimatedValues' = NoImage
              /\ cropperAnimatedValues' = NoRect
       /\ lastOp' \in {"reset", "flipX", "flipY", "rotateRight", "save"} =>
              imageState.isSuccess /\ imageState'.isSuccess /\ mounted
       /\ (mounted' /\ ~mounted) => (imageState'.isSuccess /\ EditorRebuilt')
       /\ (lastOp' = "getSizeFailure" /\ imageState.retryCount >= maxRetries) =>
              /\ imageState'.isError
              /\ imageState'.error \in ErrorMessages
              /\ imageState'.error = onErrorArg']_vars

\* C18 witness: an editor existed (save was called on it), then the source
\* was replaced and its retrieval failed until the retries were exhausted:
\* the loader is in the error state and no editor state exists.
C18_Witness ==
    /\ lastOp = "getSizeFailure"
    /\ imageState.isError
    /\ imageState.error = "timeout"
    /\ saveReturn = "undefined"
    /\ ~mounted
    /\ cropperAnimatedValues = NoRect

\* The touch lies closer than the hit-slop to the line of one of the four
\* edges of the crop rectangle.
WithinHitSlopOfAnEdge(t, c) ==
    \E edge \in {<<t.x, c.left>>, <<t.x, c.left + c.width>>, <<t.y, c.top>>,
                 <<t.y, c.top + c.height>>} :
        /\ edge[1] - edge[2] < CROP_PAN_GESTURE_HIT_SLOP * Unit
        /\ edge[2] - edge[1] < CROP_PAN_GESTURE_HIT_SLOP * Unit

\* C15: a pan update happens only while the pan holds the touch and an
\* edge-resize update only while the edge-resize holds it; while one of
\* them holds the touch the crop rectangle is changed by no update of the
\* other, and the holder changes only by the gesture ending; the
\* edge-resize takes a touch exactly when the touch is within hit-slop of
\* a crop edge, and the pan starts only on a touch the edge-resize did not
\* take.
C15_OneWriterOfCropRect ==
    [][/\ lastOp' = "panUpdate" => (race = "pan" /\ race' = "pan")
       /\ lastOp' = "cropUpdate" => (race = "crop" /\ race' = "crop")
       /\ (race = "pan" /\ cropperAnimatedValues' /= cropperAnimatedValues) =>
              lastOp' \in {"panUpdate", "reset"}
       /\ (race = "crop" /\ cropperAnimatedValues' /= cropperAnimatedValues) =>
              lastOp' \in {"cropUpdate", "reset"}
       /\ (race \in {"pan", "crop"} /\ race' /= race) => race' = "idle"
       /\ lastOp' = "touchesDown" =>
              /\ race = "idle"
              /\ touch' /= NoTouch
              /\ race' = IF WithinHitSlopOfAnEdge(touch', cropperAnimatedValues)
                         THEN "cropActivated"
                         ELSE "down"
       /\ lastOp' = "cropStart" => (race = "cropActivated" /\ race' = "crop")
       /\ lastOp' = "panStart" => (race = "down" /\ race' = "pan")]_vars

\* C15 witness: a pan, started on a touch away from every edge, has moved a
\* crop rectangle that an earlier edge-resize had made narrower.
C15_Witness ==
    /\ lastOp = "panUpdate"
    /\ race = "pan"
    /\ cropperAnimatedValues.width < initialImageLayout.width
    /\ cropperAnimatedValues.left # translationStartX

\* C16: a pinch update changes no field of the image value other than
\* zoomLevel and leaves the crop rectangle alone, and a pan or edge-resize
\* update leaves the image value (the zoom level with it) alone, in every
\* interleaving of the two kinds of update.
C16_PinchChangesOnlyZoomLevel ==
    [][/\ lastOp' = "pinchUpdate" =>
              /\ cropperAnimatedValues' = cropperAnimatedValues
              /\ imageAnimatedValues'.left = imageAnimatedValues.left
              /\ imageAnimatedValues'.top = imageAnimatedValues.top
              /\ imageAnimatedValues'.width = imageAnimatedValues.width
              /\ imageAnimatedValues'.height = imageAnimatedValues.height
              /\ imageAnimatedValues'.isFlippedX = imageAnimatedValues.isFlippedX
              /\ imageAnimatedValues'.isFlippedY = imageAnimatedValues.isFlippedY
              /\ imageAnimatedValues'.rotation = imageAnimatedValues.rotation
       /\ lastOp' \in {"panUpdate", "cropUpdate"} =>
              imageAnimatedValues' = imageAnimatedValues]_vars

\* C16 witness: a pinch update has changed the zoom level in the middle of
\* an edge-resize that had made the crop rectangle narrower, on a flipped
\* and rotated image.
C16_Witness ==
    /\ lastOp = "pinchUpdate"
    /\ race = "crop"
    /\ imageAnimatedValues.zoomLevel = MAX_ZOOM
    /\ imageAnimatedValues.isFlippedX
    /\ imageAnimatedValues.rotation = 90
    /\ cropperAnimatedValues.width < initialImageLayout.width

\* The zoom level clamp(baseline * scale, 0.1, 2) in hundredths, for the
\* scale n / d: an exact quotient between the bounds.
IsClampedProduct(zoom, baseline, scale) ==
    IF baseline * scale[1] <= MIN_ZOOM * scale[2] THEN zoom = MIN_ZOOM
    ELSE IF baseline * scale[1] >= MAX_ZOOM * scale[2] THEN zoom = MAX_ZOOM
    ELSE zoom * scale[2] = baseline * scale[1]

\* C17: the zoom level of the rendered editor is within [0.1, 2] in every
\* state; the start of a pinch captures the zoom level as the baseline and
\* leaves it unchanged; each pinch update sets the zoom level to
\* clamp(baseline * scale, 0.1, 2) for the scale of its event, with the
\* baseline captured at the start of that pinch.
C17_ZoomLevelClamped ==
    [][/\ mounted' =>
              (MIN_ZOOM <= imageAnimatedValues'.zoomLevel
                   /\ imageAnimatedValues'.zoomLevel <= MAX_ZOOM)
       /\ lastOp' = "pinchStart" =>
              /\ gestureScale' = imageAnimatedValues.zoomLevel
              /\ imageAnimatedValues' = imageAnimatedValues
       /\ lastOp' = "pinchUpdate" =>
              /\ gestureScale' = gestureScale
              /\ \E scale \in PinchScales :
                     IsClampedProduct(imageAnimatedValues'.zoomLevel, gestureScale, scale)]_vars

\* C17 witness: a second pinch, started at the lower bound an earlier pinch
\* had reached, has doubled the zoom level without clamping.
C17_Witness ==
    /\ lastOp = "pinchUpdate"
    /\ pinchActive
    /\ gestureScale = MIN_ZOOM
    /\ imageAnimatedValues.zoomLevel = 2 * MIN_ZOOM

\* C19 (as claimed): in an edge-resize, an update whose translation takes
\* the active edge to or beyond the matching side of the layout puts that
\* edge exactly on that side (right: left + width = Layout.left +
\* Layout.width; left: left = Layout.left; top: top = Layout.top; bottom:
\* top + height = Layout.top + Layout.height) and leaves the opposite edge
\* where it was at the start of the gesture.
C19_DragBeyondBoundStopsAtBound ==
    race = "crop" =>
        \A d \in GestureTranslations :
            LET layout == initialImageLayout
                v == VerticalEdgeUpdate(cropperAnimatedValues, verticalEdgeBeingTouched,
                                        d * Unit, layout, cropStartX, cropWidthStart)
                h == HorizontalEdgeUpdate(cropperAnimatedValues, horizontalEdgeBeingTouched,
                                          d * Unit, layout, cropStartY, cropHeightStart)
            IN  /\ (/\ verticalEdgeBeingTouched = "right"
                    /\ cropStartX + cropWidthStart + d * Unit >= layout.left + layout.width) =>
                       /\ v.left + v.width = layout.left + layout.width
                       /\ v.left = cropStartX
                /\ (/\ verticalEdgeBeingTouched = "left"
                    /\ cropStartX + d * Unit <= layout.left) =>
                       /\ v.left = layout.left
                       /\ v.left + v.width = cropStartX + cropWidthStart
                /\ (/\ horizontalEdgeBeingTouched = "bottom"
                    /\ cropStartY + cropHeightStart + d * Unit >= layout.top + layout.height) =>
                       /\ h.top + h.height = layout.top + layout.height
                       /\ h.top = cropStartY
                /\ (/\ horizontalEdgeBeingTouched = "top"
                    /\ cropStartY + d * Unit <= layout.top) =>
                       /\ h.top = layout.top
                       /\ h.top + h.height = cropStartY + cropHeightStart

\* The crop rectangle captured by cropGesture.onStart.
CropAtStart ==
    [left |-> cropStartX, top |-> cropStartY, width |-> cropWidthStart,
     height |-> cropHeightStart]

\* C20: in every state of an edge-resize, after any updates of the gesture,
\* the crop rectangle an update with translation (dx, dy) produces is the
\* one it produces from the rectangle captured at the start of the
\* gesture: earlier updates of the gesture have no influence.
C20_UpdateDependsOnBaselineOnly ==
    race = "crop" =>
        \A dx \in GestureTranslations, dy \in GestureTranslations :
            HorizontalEdgeUpdate(
                VerticalEdgeUpdate(cropperAnimatedValues, verticalEdgeBeingTouched,
                                   dx * Unit, initialImageLayout, cropStartX, cropWidthStart),
                horizontalEdgeBeingTouched, dy * Unit, initialImageLayout, cropStartY,
                cropHeightStart)
            = HorizontalEdgeUpdate(
                  VerticalEdgeUpdate(CropAtStart, verticalEdgeBeingTouched, dx * Unit,
                                     initialImageLayout, cropStartX, cropWidthStart),
                  horizontalEdgeBeingTouched, dy * Unit, initialImageLayout, cropStartY,
                  cropHeightStart)

\* C20 witness: an update of an edge-resize on the left and top edges has
\* moved both away from where they were at the start of the gesture, so the
\* next update starts from a rectangle that differs from the baseline.
C20_Witness ==
    /\ race = "crop"
    /\ lastOp = "cropUpdate"
    /\ verticalEdgeBeingTouched = "left"
    /\ horizontalEdgeBeingTouched = "top"
    /\ cropperAnimatedValues.left # cropStartX
    /\ cropperAnimatedValues.top # cropStartY

\* C21: right after the start of a pan the baseline is the position of the
\* crop rectangle; in every state of a pan, after any updates, an update
\* with translation (dx, dy) sets left to min(max(baselineLeft + dx,
\* Layout.left), Layout.left + Layout.width - width) and top to the same of
\* baselineTop + dy on the other axis, and leaves width and height
\* unchanged.
C21_PanUpdateClampsPosition ==
    /\ lastOp = "panStart" =>
           /\ translationStartX = cropperAnimatedValues.left
           /\ translationStartY = cropperAnimatedValues.top
    /\ race = "pan" =>
           \A dx \in GestureTranslations, dy \in GestureTranslations :
               LET c == cropperAnimatedValues
                   layout == initialImageLayout
                   r == PanUpdateResult(c, dx * Unit, dy * Unit, layout,
                                        translationStartX, translationStartY)
               IN  /\ r.width = c.width
                   /\ r.height = c.height
                   /\ r.left =
                          Min(Max(translationStartX + dx * Unit, layout.left),
                              layout.left + layout.width - c.width)
                   /\ r.top =
                          Min(Max(translationStartY + dy * Unit, layout.top),
                              layout.top + layout.height - c.height)

\* C21 witness: a pan update has moved a narrowed crop rectangle to a
\* position strictly between the sides of the layout, so its left is the
\* unclamped baseline plus translation.
C21_Witness ==
    /\ lastOp = "panUpdate"
    /\ cropperAnimatedValues.left # translationStartX
    /\ cropperAnimatedValues.left > initialImageLayout.left
    /\ cropperAnimatedValues.left + cropperAnimatedValues.width
           < initialImageLayout.left + initialImageLayout.width

\* The position lies closer than the hit-slop to the line.
WithinHitSlop(position, line) ==
    /\ position - line < CROP_PAN_GESTURE_HIT_SLOP * Unit
    /\ line - position < CROP_PAN_GESTURE_HIT_SLOP * Unit

\* C22 (as claimed): at the start of an edge-resize each of the four edges
\* is active exactly when the touch is within hit-slop of its line, the
\* left and the right edge both when the touch is within hit-slop of both.
C22_Original_EachEdgeOnItsOwn ==
    lastOp = "cropStart" =>
        LET c == cropperAnimatedValues
        IN  /\ (verticalEdgeBeingTouched = "left") = WithinHitSlop(touch.x, c.left)
            /\ (verticalEdgeBeingTouched = "right") = WithinHitSlop(touch.x, c.left + c.width)
            /\ (horizontalEdgeBeingTouched = "top") = WithinHitSlop(touch.y, c.top)
            /\ (horizontalEdgeBeingTouched = "bottom")
                   = WithinHitSlop(touch.y, c.top + c.height)

\* C22 (amended): at the start of an edge-resize at most one edge per axis
\* is active: the right edge when the touch is within hit-slop of its line,
\* otherwise the left edge when the touch is within hit-slop of its line,
\* otherwise none; the bottom edge, otherwise the top edge, otherwise none,
\* in the same way; the two axes are decided independently.
C22_OneEdgePerAxis ==
    lastOp = "cropStart" =>
        LET c == cropperAnimatedValues
        IN  /\ verticalEdgeBeingTouched =
                   IF WithinHitSlop(touch.x, c.left + c.width) THEN "right"
                   ELSE IF WithinHitSlop(touch.x, c.left) THEN "left"
                   ELSE "null"
            /\ horizontalEdgeBeingTouched =
                   IF WithinHitSlop(touch.y, c.top + c.height) THEN "bottom"
                   ELSE IF WithinHitSlop(touch.y, c.top) THEN "top"
                   ELSE "null"

\* C22 witness: an edge-resize has started on a touch within hit-slop of the
\* left and of the right edge line and of no horizontal edge line; only the
\* right edge is active.
C22_Witness ==
    /\ lastOp = "cropStart"
    /\ WithinHitSlop(touch.x, cropperAnimatedValues.left)
    /\ WithinHitSlop(touch.x, cropperAnimatedValues.left + cropperAnimatedValues.width)
    /\ verticalEdgeBeingTouched = "right"
    /\ horizontalEdgeBeingTouched = "null"

\* C23: in every state of an edge-resize with a vertical and a horizontal
\* edge active, an update with translation (dx, dy) gives the left and width
\* of the update of the vertical edge alone with dx, whatever dy is, and the
\* top and height of the update of the horizontal edge alone with dy,
\* whatever dx is.
C23_CornerDragAxesIndependent ==
    (/\ race = "crop"
     /\ verticalEdgeBeingTouched # "null"
     /\ horizontalEdgeBeingTouched # "null") =>
        \A dx \in GestureTranslations, dy \in GestureTranslations :
            LET c == cropperAnimatedValues
                layout == initialImageLayout
                vertical(val, edge) ==
                    VerticalEdgeUpdate(val, edge, dx * Unit, layout, cropStartX,
                                       cropWidthStart)
                horizontal(val, edge) ==
                    HorizontalEdgeUpdate(val, edge, dy * Unit, layout, cropStartY,
                                         cropHeightStart)
                corner ==
                    horizontal(vertical(c, verticalEdgeBeingTouched),
                               horizontalEdgeBeingTouched)
                verticalOnly == horizontal(vertical(c, verticalEdgeBeingTouched), "null")
                horizontalOnly == horizontal(vertical(c, "null"), horizontalEdgeBeingTouched)
            IN  /\ corner.left = verticalOnly.left
                /\ corner.width = verticalOnly.width
                /\ corner.top = horizontalOnly.top
                /\ corner.height = horizontalOnly.height

\* C23 witness: an update of a drag of the bottom right corner has made the
\* crop rectangle narrower and lower, by different amounts.
C23_Witness ==
    /\ race = "crop"
    /\ lastOp = "cropUpdate"
    /\ verticalEdgeBeingTouched = "right"
    /\ horizontalEdgeBeingTouched = "bottom"
    /\ cropperAnimatedValues.width < cropWidthStart
    /\ cropperAnimatedValues.height < cropHeightStart
    /\ cropWidthStart - cropperAnimatedValues.width
           # cropHeightStart - cropperAnimatedValues.height

\* C24: a marker is set only while the edge-resize is active; every step
\* that ends a touch gesture (edge-resize, pan, or a touch that activated
\* neither) leaves both markers null and changes neither the crop rectangle
\* nor the image transform.
C24_MarkersOnlyDuringEdgeResize ==
    [][/\ (verticalEdgeBeingTouched' # "null" \/ horizontalEdgeBeingTouched' # "null")
              => race' = "crop"
       /\ (race # "idle" /\ race' = "idle") =>
              /\ verticalEdgeBeingTouched' = "null"
              /\ horizontalEdgeBeingTouched' = "null"
              /\ cropperAnimatedValues' = cropperAnimatedValues
              /\ imageAnimatedValues' = imageAnimatedValues]_vars

\* C24 witness: an edge-resize that made the crop rectangle narrower has
\* ended and the markers are cleared.
C24_Witness ==
    /\ lastOp = "cropFinalize"
    /\ race = "idle"
    /\ verticalEdgeBeingTouched = "null"
    /\ horizontalEdgeBeingTouched = "null"
    /\ cropperAnimatedValues.width < cropWidthStart
    /\ cropperAnimatedValues.left = cropStartX

\* The touch gesture steps: what a one-finger gesture itself does.
TouchGestureOps ==
    {"touchesDown", "cropStart", "cropUpdate", "cropFinalize", "panStart", "panUpdate",
     "panEnd"}

\* C25: a touch that is within hit-slop of none of the four edge lines of
\* the crop rectangle does not activate the edge-resize; in the steps of the
\* gesture it starts no edge is marked, the crop rectangle keeps its width
\* and height, and the loader is not in, and does not enter, its error state.
C25_TouchAwayFromEdgesDoesNotResize ==
    [][/\ (/\ race = "idle"
           /\ lastOp' = "touchesDown"
           /\ ~ WithinHitSlop(touch'.x, cropperAnimatedValues.left)
           /\ ~ WithinHitSlop(touch'.x,
                              cropperAnimatedValues.left + cropperAnimatedValues.width)
           /\ ~ WithinHitSlop(touch'.y, cropperAnimatedValues.top)
           /\ ~ WithinHitSlop(touch'.y,
                              cropperAnimatedValues.top + cropperAnimatedValues.height))
              => race' = "down"
       /\ (race \in {"down", "pan"} /\ lastOp' \in TouchGestureOps) =>
              /\ race' \in {"down", "pan", "idle"}
              /\ verticalEdgeBeingTouched' = "null"
              /\ horizontalEdgeBeingTouched' = "null"
              /\ cropperAnimatedValues'.width = cropperAnimatedValues.width
              /\ cropperAnimatedValues'.height = cropperAnimatedValues.height
              /\ imageState' = imageState
              /\ ~ imageState'.isError]_vars

\* C25 witness: a gesture whose touch activated no edge has moved the crop
\* rectangle and ended; no edge is marked.
C25_Witness ==
    /\ lastOp = "panEnd"
    /\ race = "idle"
    /\ verticalEdgeBeingTouched = "null"
    /\ horizontalEdgeBeingTouched = "null"
    /\ cropperAnimatedValues.left # translationStartX
    /\ ~ imageState.isError

\* C26: with one source and every request answered, the loader of a view
\* that stays in the tree eventually is in the success or the error state
\* for good; and from a success or error state no step changes the loader
\* state, makes a request or leaves an effect due.
C26_LoaderTerminates ==
    /\ <>[](viewMounted => ~ imageState.isLoading)
    /\ [][~ imageState.isLoading =>
              /\ imageState' = imageState
              /\ attempts' = attempts
              /\ requests' = requests
              /\ pendingGetImageSize' = pendingGetImageSize
              /\ ~ effectDue']_vars

\* C26 witness: the loader has reached the error state after the last retry
\* and nothing is pending.
C26_Witness ==
    /\ viewMounted
    /\ lastOp = "getSizeFailure"
    /\ imageState.isError
    /\ imageState.retryCount = maxRetries
    /\ requests = {}
    /\ ~ effectDue

\* C27 (as claimed): every update of a pan or an edge-resize that follows a
\* reset, a flip, a rotation or a pinch update inside the same gesture leaves
\* the crop rectangle inside the layout.
C27_InterruptedGestureKeepsContainment ==
    (interrupted /\ race \in {"pan", "crop"} /\ lastOp \in {"panUpdate", "cropUpdate"})
        => Inside(cropperAnimatedValues, initialImageLayout)

\* C28: in every state of the rendered editor the box of the image
\* transform (left, top, width, height) is the layout; so with the crop
\* rectangle inside the layout the early return of save() is taken exactly
\* when the source has no uri.
C28_TransformBoxIsLayout ==
    mounted =>
        /\ imageAnimatedValues.left = initialImageLayout.left
        /\ imageAnimatedValues.top = initialImageLayout.top
        /\ imageAnimatedValues.width = initialImageLayout.width
        /\ imageAnimatedValues.height = initialImageLayout.height
        /\ Inside(cropperAnimatedValues, initialImageLayout) =>
               \A uri \in {sourceUri, ""} :
                   SaveRejected(uri, cropperAnimatedValues, imageAnimatedValues)
                       <=> uri = ""

\* C28 witness: save() has handed over the uri of an image that is zoomed,
\* turned and flipped, with a crop rectangle smaller than the layout.
C28_Witness ==
    /\ lastOp = "save"
    /\ onSaveArg = sourceUri
    /\ imageAnimatedValues.zoomLevel # ZOOM_ONE
    /\ imageAnimatedValues.rotation # 0
    /\ imageAnimatedValues.isFlippedX
    /\ cropperAnimatedValues.width < initialImageLayout.width
    /\ Inside(cropperAnimatedValues, initialImageLayout)

\* C29: in every loader state exactly one of isLoading, isSuccess, isError
\* is true; width, height and aspectRatio are defined exactly in the success
\* state and error exactly in the error state; and no step lowers
\* retryCount.
C29_LoaderStateShape ==
    /\ [](LET s == imageState
              flags == {f \in {"isLoading", "isSuccess", "isError"} : s[f]}
          IN  /\ Cardinality(flags) = 1
              /\ (s.width # undefinedNumber) <=> s.isSuccess
              /\ (s.height # undefinedNumber) <=> s.isSuccess
              /\ (s.aspectRatio # <<>>) <=> s.isSuccess
              /\ (s.error # "undefined") <=> s.isError)
    /\ [][imageState'.retryCount >= imageState.retryCount]_vars

\* C29 witness: the loader has reached the success state on its last retry,
\* after a replacement of the source.
C29_Witness ==
    /\ lastOp = "getSizeSuccess"
    /\ imageState.isSuccess
    /\ imageState.retryCount = maxRetries
    /\ imageState.width # undefinedNumber
    /\ sourceChanges = MaxSourceChanges

\* C30 (as claimed): no step of save() changes the image transform, the
\* crop rectangle, the gesture baselines or the edge markers; and the crop
\* rectangle and the transform a finished save() has read were those of the
\* editor at one moment.
C30_SaveReadsOneState ==
    /\ [][lastOp' \in {"saveReadCropper", "save"} =>
              UNCHANGED <<imageAnimatedValues, cropperAnimatedValues, baselines, markers>>]_vars
    /\ [](lastOp = "save" => saveCall.consistent)

\* C31: in every state of an edge-resize, whatever else has happened in the
\* gesture, an update with any translation leaves the edge opposite the
\* dragged one in place: with the left edge active left + width is
\* cropStartX + cropWidthStart, its value at the start of the gesture; with
\* the right edge active left is not changed; with the top edge active
\* top + height is cropStartY + cropHeightStart; with the bottom edge active
\* top is not changed.  The crop rectangle an update has left agrees: the
\* far side of a left or top drag is where the gesture found it, and so is
\* the near side of a right or bottom drag unless a reset moved it in the
\* middle of the gesture.
C31_OppositeEdgeStays ==
    LET c == cropperAnimatedValues
        vertical == verticalEdgeBeingTouched
        horizontal == horizontalEdgeBeingTouched
    IN  /\ race = "crop" =>
               \A dx \in GestureTranslations, dy \in GestureTranslations :
                   LET r == HorizontalEdgeUpdate(
                                VerticalEdgeUpdate(c, vertical, dx * Unit,
                                                   initialImageLayout, cropStartX,
                                                   cropWidthStart),
                                horizontal, dy * Unit, initialImageLayout, cropStartY,
                                cropHeightStart)
                   IN  /\ vertical = "left" =>
                               r.left + r.width = cropStartX + cropWidthStart
                       /\ vertical = "right" => r.left = c.left
                       /\ horizontal = "top" =>
                               r.top + r.height = cropStartY + cropHeightStart
                       /\ horizontal = "bottom" => r.top = c.top
        /\ (race = "crop" /\ lastOp = "cropUpdate") =>
               /\ vertical = "left" => c.left + c.width = cropStartX + cropWidthStart
               /\ (vertical = "right" /\ ~ interrupted) => c.left = cropStartX
               /\ horizontal = "top" => c.top + c.height = cropStartY + cropHeightStart
               /\ (horizontal = "bottom" /\ ~ interrupted) => c.top = cropStartY

\* C31 witness: an update of a drag of the left and bottom edges has moved
\* the left edge to the right and the bottom edge up; the right edge and the
\* top edge are where they were at the start of the gesture.
C31_Witness ==
    /\ race = "crop"
    /\ lastOp = "cropUpdate"
    /\ verticalEdgeBeingTouched = "left"
    /\ horizontalEdgeBeingTouched = "bottom"
    /\ cropperAnimatedValues.left > cropStartX
    /\ cropperAnimatedValues.height < cropHeightStart
    /\ cropperAnimatedValues.left + cropperAnimatedValues.width = cropStartX + cropWidthStart
    /\ cropperAnimatedValues.top = cropStartY

====
